---- MODULE Spec2Model ----
(***************************************************************************)
(* A model of personal-dev-assistant's Code-Intelligence Engine:           *)
(*   - the query Orchestration Loop of src/mcp_server/server.py, and       *)
(*   - the Signal Collector of src/mcp_server/raw_signal.py.               *)
(* Spec is the Orchestration Loop; SpecSignals is the Signal Collector.    *)
(***************************************************************************)
EXTENDS Integers, Sequences, FiniteSets, TLC

VARIABLES
    registry,       \* the live Tool Registry: tool names in registration order
    regChanges,     \* how often the registry changed during the run
    pc,             \* query's position
    step,           \* reasoning-service calls issued by this run
    tool_schemas,   \* the tool list query sends to the reasoning service
    messages,       \* the conversation
    msg,            \* response.choices[0].message of the latest service call
    ci,             \* index into msg.tool_calls of the invocation being dispatched
    resolved,       \* the tool the latest mcp.call_tool resolved to
    result,         \* what query returned or raised
    tree,           \* the subtree collect_signals reads: files in rglob's order
    spc,            \* collect_signals' position
    definitions,    \* collect_definitions' defs, in insertion order
    usages,         \* collect_usages' usages, in insertion order
    unused,         \* collect_usages' unused
    external_calls, \* collect_external_calls' calls
    try_blocks,     \* collect_try_blocks' blocks
    ui,             \* collect_usages' place in definitions
    ei,             \* collect_external_calls' place in EXTERNAL_PATTERNS
    report,         \* the SignalReport collect_signals returned
    serr,           \* the error collect_signals raised
    reports,        \* the SignalReports returned so far, one per run
    args,           \* cli main's parsed arguments
    cli_pc,         \* the position of cli main, or of a caller of MCPClient.ask
    cli_result,     \* what main or ask returned or raised
    question,       \* the question query is called with
    peer,           \* a second query run: its locals
    read_path,      \* the path read_file is called with
    file_path,      \* read_file's file_path, as the parts of the resolved path
    rpc,            \* read_file's position
    read_result     \* what read_file returned or raised

loopVars == <<registry, regChanges, pc, step, tool_schemas, messages, msg, ci,
              resolved, result>>

sigVars == <<tree, spc, definitions, usages, unused, external_calls,
             try_blocks, ui, ei, report, serr, reports>>

cliVars == <<args, cli_pc, cli_result, question>>

fileVars == <<read_path, file_path, rpc, read_result>>

\* what an action of query leaves alone
besideLoop == <<sigVars, cliVars, peer, fileVars>>

\* what an action of collect_signals leaves alone
besideSignals == <<loopVars, cliVars, peer, fileVars>>

(***************************************************************************)
(* Constants of the program.                                               *)
(***************************************************************************)
MAX_STEPS == 20

SELF == "query"

SYSTEM_PROMPT == "SYSTEM_PROMPT"

NO_ANSWER == "No answer generated."

STEP_LIMIT_ANSWER ==
    "I could not fully answer the question within the allowed reasoning steps."

\* Python's None
None == "<None>"

(***************************************************************************)
(* Bounds of the model.                                                    *)
(***************************************************************************)
\* the reasoning service requests ROUTINE_CALL, answers or fails in every
\* turn; in the last FreeTail turns of the budget it requests what it likes
FreeTail == 1
\* tool invocations the service requests in one turn
MaxCalls == 2
\* registrations / removals in the Tool Registry while query runs
MaxRegistryChanges == 1
\* runs of collect_signals on one subtree
MaxRuns == 2
\* turns in which the reasoning service requests invocations from the
\* second of two concurrent runs
MaxPeerTurns == 1

(***************************************************************************)
(* The environment's inputs.                                               *)
(***************************************************************************)
\* registries query may be started with (the decorators register query last)
Registries ==
    { <<"read_file", "search_code", "query">>,
      <<"read_file", "query">>,
      <<"query", "read_file">>,
      <<"query">> }

\* the tool that comes and goes while query runs
DYNAMIC_TOOL == "search_code"

\* call.function.arguments, a JSON text: an object, and a truncated one
ARGS_OBJECT == "{}"

ARGS_TRUNCATED == "{"

\* the invocations the reasoning service may ask for in a free turn: a tool
\* that comes and goes, query itself, and one with unparseable arguments
CallShapes ==
    { [name |-> "search_code", arguments |-> ARGS_OBJECT],
      [name |-> "query",       arguments |-> ARGS_OBJECT],
      [name |-> "search_code", arguments |-> ARGS_TRUNCATED] }

\* message.content of a turn
Contents == { None, "", "an answer" }

Question == "question"

Range(s) == { s[i] : i \in 1..Len(s) }

\* the largest member of a non-empty set of numbers
Max(S) == CHOOSE x \in S : \A y \in S : y <= x

(***************************************************************************)
(* query: the pure steps.                                                  *)
(***************************************************************************)
\* every registered tool, query too
BuildToolSchemasUnfiltered(tools_list) == tools_list

\* the advertised tool list: every registered tool but query itself
BuildToolSchemas(tools_list) ==
    SelectSeq(tools_list, LAMBDA name : name # SELF)

\* the conversation query starts from
SeedMessages(q) ==
    << [role |-> "system", content |-> <<SYSTEM_PROMPT>>],
       [role |-> "user",   content |-> <<q>>] >>

\* the conversation goes on from the one another run holds
ContinuedConversation(theirs, q) == theirs \o SeedMessages(q)

\* lines 373-376: messages is a new list of the call
FreshConversation(theirs, q) == SeedMessages(q)

\* json.loads(call.function.arguments) returns (TRUE) or raises (FALSE)
JsonLoads(arguments) == arguments = ARGS_OBJECT

\* Python's truth of a str-or-None
Truthy(content) == content # None /\ content # ""

\* the fallback for an absent content only
AnswerUnlessNone(m) == IF m.content # None THEN m.content ELSE NO_ANSWER

\* msg.content or "No answer generated."
Answer(m) == IF Truthy(m.content) THEN m.content ELSE NO_ANSWER

\* not msg.tool_calls
NoToolCalls(m) == Len(m.tool_calls) = 0

\* f"Error calling tool '{tool_name}': {str(e)}"
ErrorText(tool_name, e) == <<"Error calling tool", tool_name, e>>

\* str(result) of a tool that returned
ResultText(tool_name) == <<"result of", tool_name>>

\* every tool message of a turn correlated to the turn's first invocation
ToolMessageFirstId(call, content) ==
    [role |-> "tool", tool_call_id |-> msg.tool_calls[1].id, content |-> content]

\* the tool-role message of one invocation
ToolMessage(call, content) ==
    [role |-> "tool", tool_call_id |-> call.id, content |-> content]

\* one turn more than the budget
LoopNextInclusive(s) == IF s <= MAX_STEPS THEN "Reasoning" ELSE "Exhausted"

\* for step in range(MAX_STEPS): another turn, or the step limit
LoopNext(s) == IF s < MAX_STEPS THEN "Reasoning" ELSE "Exhausted"

(***************************************************************************)
(* The reasoning service's turns.                                          *)
(***************************************************************************)
\* invocations requested so far: the service numbers its invocation ids on
RequestedSoFar(ms) ==
    LET Count[i \in 0..Len(ms)] ==
            IF i = 0 THEN 0
            ELSE Count[i - 1]
                 + (IF ms[i].role = "assistant" THEN Len(ms[i].tool_calls) ELSE 0)
    IN Count[Len(ms)]

\* the n-th turn of a run is unconstrained at the end of the budget
FreeTurn(n) == n > MAX_STEPS - FreeTail

\* the invocation of a routine turn
ROUTINE_CALL == [name |-> "read_file", arguments |-> ARGS_OBJECT]

\* the invocation lists the service may request in the n-th turn
TurnShapes(n) ==
    IF FreeTurn(n)
    THEN UNION { [1..k -> CallShapes] : k \in 1..MaxCalls }
    ELSE { <<ROUTINE_CALL>> }

WithIds(shapes, base) ==
    [i \in 1..Len(shapes) |->
        [id |-> base + i, name |-> shapes[i].name,
         arguments |-> shapes[i].arguments]]

(***************************************************************************)
(* query: the steps.                                                       *)
(***************************************************************************)
LoopInit ==
    /\ registry \in Registries
    /\ regChanges = 0
    /\ pc = "Start"
    /\ step = 0
    /\ tool_schemas = <<>>
    /\ messages = <<>>
    /\ msg = [role |-> "assistant", content |-> None, tool_calls |-> <<>>]
    /\ ci = 0
    /\ resolved = "none"
    /\ result = <<"running">>

\* lines 355-378: list the tools, seed the conversation
Start ==
    /\ pc = "Start"
    /\ tool_schemas' = BuildToolSchemas(registry)
    /\ messages' = FreshConversation(peer.messages, question)
    /\ pc' = LoopNext(0)
    /\ UNCHANGED <<registry, regChanges, step, msg, ci, resolved, result>>
    /\ UNCHANGED besideLoop

\* lines 383-394: the service answers; query returns
ServiceAnswer ==
    /\ pc = "Reasoning"
    /\ \E content \in Contents :
          /\ msg' = [role |-> "assistant", content |-> content, tool_calls |-> <<>>]
          /\ step' = step + 1
          /\ NoToolCalls(msg')
          /\ pc' = "Done"
          /\ result' = <<"return", Answer(msg')>>
    /\ UNCHANGED <<registry, regChanges, tool_schemas, messages, ci, resolved>>
    /\ UNCHANGED besideLoop

\* lines 383-396: the service requests tool invocations
ServiceToolCalls ==
    /\ pc = "Reasoning"
    /\ \E shapes \in TurnShapes(step + 1) :
          /\ msg' = [role |-> "assistant", content |-> None,
                     tool_calls |-> WithIds(shapes, RequestedSoFar(messages))]
          /\ ~NoToolCalls(msg')
          /\ step' = step + 1
          /\ messages' = Append(messages, msg')
          /\ ci' = 1
          /\ pc' = "Dispatching"
    /\ UNCHANGED <<registry, regChanges, tool_schemas, resolved, result>>
    /\ UNCHANGED besideLoop

\* line 383: the service call itself fails; nothing in query catches it
ServiceFail ==
    /\ pc = "Reasoning"
    /\ step' = step + 1
    /\ pc' = "Raised"
    /\ result' = <<"raise", "APIError">>
    /\ UNCHANGED <<registry, regChanges, tool_schemas, messages, msg, ci, resolved>>
    /\ UNCHANGED besideLoop

\* lines 398, 412-418: the tool message is appended, then the next invocation,
\* the next turn, or the step limit
Appended(content) ==
    /\ messages' = Append(messages, ToolMessage(msg.tool_calls[ci], content))
    /\ IF ci < Len(msg.tool_calls)
       THEN /\ ci' = ci + 1
            /\ UNCHANGED <<pc, result>>
       ELSE /\ ci' = 0
            /\ pc' = LoopNext(step)
            /\ result' = IF pc' = "Exhausted"
                         THEN <<"return", STEP_LIMIT_ANSWER>> ELSE result

\* line 400: json.loads raises, outside the try
DispatchMalformed ==
    /\ pc = "Dispatching"
    /\ ~JsonLoads(msg.tool_calls[ci].arguments)
    /\ pc' = "Raised"
    /\ result' = <<"raise", "JSONDecodeError">>
    /\ UNCHANGED <<registry, regChanges, step, tool_schemas, messages, msg, ci,
                   resolved>>
    /\ UNCHANGED besideLoop

\* lines 404-408: the registry resolves the name and the tool returns
DispatchReturn ==
    /\ pc = "Dispatching"
    /\ LET call == msg.tool_calls[ci] IN
          /\ JsonLoads(call.arguments)
          /\ call.name \in Range(registry)
          /\ resolved' = call.name
          /\ Appended(ResultText(call.name))
    /\ UNCHANGED <<registry, regChanges, step, tool_schemas, msg>>
    /\ UNCHANGED besideLoop

\* lines 404-410: mcp.call_tool raises: no such tool, or the tool itself fails
DispatchRaise ==
    /\ pc = "Dispatching"
    /\ LET call == msg.tool_calls[ci] IN
          /\ JsonLoads(call.arguments)
          /\ \/ /\ call.name \notin Range(registry)
                /\ resolved' = "none"
                /\ Appended(ErrorText(call.name, "Unknown tool"))
             \/ /\ call.name \in Range(registry)
                /\ FreeTurn(step)
                /\ resolved' = call.name
                /\ Appended(ErrorText(call.name, "tool failed"))
    /\ UNCHANGED <<registry, regChanges, step, tool_schemas, msg>>
    /\ UNCHANGED besideLoop

\* the Tool Registry is live: a tool is registered or removed while query is
\* suspended
RegistryChange ==
    /\ pc \in {"Reasoning", "Dispatching"}
    /\ regChanges < MaxRegistryChanges
    /\ regChanges' = regChanges + 1
    /\ registry' = IF DYNAMIC_TOOL \in Range(registry)
                   THEN SelectSeq(registry, LAMBDA name : name # DYNAMIC_TOOL)
                   ELSE Append(registry, DYNAMIC_TOOL)
    /\ UNCHANGED <<pc, step, tool_schemas, messages, msg, ci, resolved, result>>
    /\ UNCHANGED besideLoop

LoopNextStep ==
    \/ Start
    \/ ServiceAnswer
    \/ ServiceToolCalls
    \/ ServiceFail
    \/ DispatchMalformed
    \/ DispatchReturn
    \/ DispatchRaise
    \/ RegistryChange

(***************************************************************************)
(* cli.py and MCPClient: the command pipeline in front of query.           *)
(***************************************************************************)
COMMANDS ==
    { "explain", "entry", "find", "explain-file", "tree", "explain-flow",
      "lint", "optimize", "fix" }

\* lines 342-352: the commands main collects signals for
SIGNAL_COMMANDS == { "lint", "optimize", "fix" }

\* what argparse hands to main
Arguments ==
    { [command |-> c, allow_refactor |-> r] :
         c \in COMMANDS, r \in BOOLEAN } \ 
    { [command |-> c, allow_refactor |-> TRUE] : c \in COMMANDS \ {"fix"} }

NO_ARGS == [command |-> None, allow_refactor |-> FALSE]

\* the task template of a command
build_prompt(a) ==
    IF a.command = "fix" /\ a.allow_refactor
    THEN <<"task template", "fix (REFRACTOR MODE ENABLED)">>
    ELSE <<"task template", a.command>>

\* the methods class MCPClient defines
MCP_CLIENT_METHODS ==
    { "__init__", "connect", "ask", "_log_callback", "close",
      "__aenter__", "__aexit__" }

\* async def ask(self, internal_prompt)
ASK_PARAMETERS == <<"internal_prompt">>

\* client.ask(prompt, args.command, obj)
ASK_ARGUMENTS == <<"prompt", "args.command", "obj">>

\* the prompt of a program that calls MCPClient.ask itself
INTERNAL_PROMPT == "internal prompt"

\* the registry of the server the client starts
SERVER_REGISTRY == <<"read_file", "search_code", "query">>

\* query is called by an MCP client other than cli.py
CliNone ==
    /\ args = NO_ARGS
    /\ cli_pc = "none"
    /\ cli_result = <<"running">>
    /\ question = Question

\* lines 327-337: main has parsed its arguments and built the prompt
CliMain ==
    /\ args \in Arguments
    /\ cli_pc = "main"
    /\ cli_result = <<"running">>
    /\ question = None

\* a program is about to call MCPClient.ask(INTERNAL_PROMPT)
CliAsking ==
    /\ args = NO_ARGS
    /\ cli_pc = "ask"
    /\ cli_result = <<"running">>
    /\ question = None

\* the server is up and query is not called yet
LoopWaiting ==
    /\ registry = SERVER_REGISTRY
    /\ regChanges = 0
    /\ pc = "Idle"
    /\ step = 0
    /\ tool_schemas = <<>>
    /\ messages = <<>>
    /\ msg = [role |-> "assistant", content |-> None, tool_calls |-> <<>>]
    /\ ci = 0
    /\ resolved = "none"
    /\ result = <<"running">>

\* lines 342-352, 362-363: client.call_tool of a signal-driven command;
\* MCPClient has no call_tool, the AttributeError leaves main
CliCallTool ==
    /\ cli_pc = "main"
    /\ args.command \in SIGNAL_COMMANDS
    /\ "call_tool" \notin MCP_CLIENT_METHODS
    /\ cli_pc' = "raised"
    /\ cli_result' = <<"raise", "AttributeError">>
    /\ UNCHANGED <<args, question>>
    /\ UNCHANGED <<loopVars, sigVars, peer, fileVars>>

\* lines 356-363: client.ask with three arguments; ask takes one, the
\* TypeError leaves main
CliAsk ==
    /\ cli_pc = "main"
    /\ args.command \notin SIGNAL_COMMANDS
    /\ Len(ASK_ARGUMENTS) > Len(ASK_PARAMETERS)
    /\ cli_pc' = "raised"
    /\ cli_result' = <<"raise", "TypeError">>
    /\ UNCHANGED <<args, question>>
    /\ UNCHANGED <<loopVars, sigVars, peer, fileVars>>

\* client.py lines 35-42: ask calls the tool query with its prompt as the
\* question
Ask ==
    /\ cli_pc = "ask"
    /\ pc = "Idle"
    /\ question' = INTERNAL_PROMPT
    /\ pc' = "Start"
    /\ cli_pc' = "awaiting"
    /\ UNCHANGED <<args, cli_result>>
    /\ UNCHANGED <<registry, regChanges, step, tool_schemas, messages, msg, ci,
                   resolved, result>>
    /\ UNCHANGED <<sigVars, peer, fileVars>>

\* client.py lines 44-47: the text of query's result
AskReturn ==
    /\ cli_pc = "awaiting"
    /\ pc \in {"Done", "Exhausted", "Raised"}
    /\ cli_pc' = "returned"
    /\ cli_result' = <<"return", result>>
    /\ UNCHANGED <<args, question>>
    /\ UNCHANGED <<loopVars, sigVars, peer, fileVars>>

CliNext ==
    \/ CliCallTool
    \/ CliAsk
    \/ Ask
    \/ AskReturn

(***************************************************************************)
(* A second query run beside the first: the same steps on its own locals.  *)
(***************************************************************************)
\* the locals of a query call that has not started
IDLE_RUN ==
    [pc |-> "Idle", question |-> None, step |-> 0, tool_schemas |-> <<>>,
     messages |-> <<>>,
     msg |-> [role |-> "assistant", content |-> None, tool_calls |-> <<>>],
     ci |-> 0, resolved |-> "none", result |-> <<"running">>]

PEER_QUESTION == "another question"

\* the reasoning service numbers the second run's invocation ids from here
PEER_ID_BASE == 1000

PeerContents == { "another answer" }

\* what the service may request from the second run in its n-th turn: after
\* MaxPeerTurns turns with invocations it answers
PeerTurnShapes(n) ==
    IF n <= MaxPeerTurns
    THEN { <<ROUTINE_CALL>>,
           <<[name |-> "read_file", arguments |-> ARGS_TRUNCATED]>> }
    ELSE {}

PeerIdle == peer = IDLE_RUN

\* lines 398, 412-418 on the locals r
AppendedTo(r, content) ==
    LET ms == Append(r.messages, ToolMessage(r.msg.tool_calls[r.ci], content))
    IN IF r.ci < Len(r.msg.tool_calls)
       THEN [r EXCEPT !.messages = ms, !.ci = r.ci + 1]
       ELSE [r EXCEPT !.messages = ms, !.ci = 0, !.pc = LoopNext(r.step),
                      !.result = IF LoopNext(r.step) = "Exhausted"
                                 THEN <<"return", STEP_LIMIT_ANSWER>>
                                 ELSE r.result]

\* lines 355-418: the steps a query call with the locals r can take, with
\* the registry tools; theirs is the conversation of the other run
QuerySteps(r, tools, theirs) ==
    CASE r.pc = "Start" ->
            { [r EXCEPT !.tool_schemas = BuildToolSchemas(tools),
                        !.messages = FreshConversation(theirs, r.question),
                        !.pc = LoopNext(0)] }
      [] r.pc = "Reasoning" ->
            { [r EXCEPT !.msg = [role |-> "assistant", content |-> c,
                                 tool_calls |-> <<>>],
                        !.step = r.step + 1,
                        !.pc = "Done",
                        !.result = <<"return",
                                     Answer([content |-> c])>>] :
                 c \in PeerContents }
            \cup
            { [r EXCEPT !.msg = [role |-> "assistant", content |-> None,
                                 tool_calls |->
                                    WithIds(shapes, PEER_ID_BASE
                                               + RequestedSoFar(r.messages))],
                        !.step = r.step + 1,
                        !.messages =
                            Append(r.messages,
                                   [role |-> "assistant", content |-> None,
                                    tool_calls |->
                                       WithIds(shapes, PEER_ID_BASE
                                                  + RequestedSoFar(r.messages))]),
                        !.ci = 1,
                        !.pc = "Dispatching"] :
                 shapes \in PeerTurnShapes(r.step + 1) }
            \cup
            { [r EXCEPT !.step = r.step + 1,
                        !.pc = "Raised",
                        !.result = <<"raise", "APIError">>] }
      [] r.pc = "Dispatching" ->
            LET call == r.msg.tool_calls[r.ci] IN
            IF ~JsonLoads(call.arguments)
            THEN { [r EXCEPT !.pc = "Raised",
                             !.result = <<"raise", "JSONDecodeError">>] }
            ELSE IF call.name \in Range(tools)
            THEN { AppendedTo([r EXCEPT !.resolved = call.name],
                              ResultText(call.name)) }
            ELSE { AppendedTo([r EXCEPT !.resolved = "none"],
                              ErrorText(call.name, "Unknown tool")) }
      [] OTHER -> {}

\* the second run takes a step
PeerStep ==
    /\ \E r \in QuerySteps(peer, registry, messages) : peer' = r
    /\ UNCHANGED <<loopVars, sigVars, cliVars, fileVars>>

(***************************************************************************)
(* Text.  A Python str is the sequence of its characters.                  *)
(***************************************************************************)
LETTERS ==
    { "a", "b", "c", "d", "e", "f", "g", "h", "i", "j", "k", "l", "m",
      "n", "o", "p", "q", "r", "s", "t", "u", "v", "w", "x", "y", "z",
      "A", "B", "C", "D", "E", "F", "G", "H", "I", "J", "K", "L", "M",
      "N", "O", "P", "Q", "R", "S", "T", "U", "V", "W", "X", "Y", "Z", "_" }

DIGITS == { "0", "1", "2", "3", "4", "5", "6", "7", "8", "9" }

WHITESPACE == { " ", "\t", "\n" }

\* [A-Za-z_] and [A-Za-z0-9_]
IsIdentStart(c) == c \in LETTERS

IsIdentChar(c) == c \in LETTERS \cup DIGITS

\* s[i:] starts with p
StartsAt(s, p, i) ==
    /\ i >= 1
    /\ i + Len(p) - 1 <= Len(s)
    /\ \A j \in 1..Len(p) : s[i + j - 1] = p[j]

\* p in s
Contains(s, p) == \E i \in 1..(Len(s) + 1) : StartsAt(s, p, i)

\* s.find(p), 1-based; 0 when p is not in s
Find(s, p) ==
    IF Contains(s, p)
    THEN CHOOSE i \in 1..(Len(s) + 1) :
            /\ StartsAt(s, p, i)
            /\ \A j \in 1..(i - 1) : ~StartsAt(s, p, j)
    ELSE 0

\* s.split(p)[0]
Before(s, p) == IF Contains(s, p) THEN SubSeq(s, 1, Find(s, p) - 1) ELSE s

\* what follows the first p in s
After(s, p) == SubSeq(s, Find(s, p) + Len(p), Len(s))

\* s.split(p)[1], for a p that is in s
SplitSecond(s, p) == Before(After(s, p), p)

\* s.strip()
Strip(s) ==
    LET inked == { i \in 1..Len(s) : s[i] \notin WHITESPACE }
    IN IF inked = {} THEN <<>>
       ELSE SubSeq(s, CHOOSE i \in inked : \A j \in inked : i <= j,
                      CHOOSE i \in inked : \A j \in inked : j <= i)

\* s.rstrip()
RStrip(s) ==
    LET inked == { i \in 1..Len(s) : s[i] \notin WHITESPACE }
    IN IF inked = {} THEN <<>>
       ELSE SubSeq(s, 1, CHOOSE i \in inked : \A j \in inked : j <= i)

\* the end of the run of identifier characters that starts at i
RunEnd(s, i) ==
    CHOOSE e \in i..Len(s) :
        /\ \A j \in i..e : IsIdentChar(s[j])
        /\ e < Len(s) => ~IsIdentChar(s[e + 1])

\* where re.finditer(r"[A-Za-z_][A-Za-z0-9_]*", s) finds its matches
IdentStarts(s) ==
    { i \in 1..Len(s) :
        /\ IsIdentStart(s[i])
        /\ \/ i = 1
           \/ ~IsIdentChar(s[i - 1])
           \/ /\ s[i - 1] \in DIGITS
              /\ \A j \in 1..(i - 1) :
                    (\A k \in j..(i - 1) : IsIdentChar(s[k])) =>
                    (\A k \in j..(i - 1) : s[k] \in DIGITS) }

\* re.findall(r"[A-Za-z_][A-Za-z0-9_]*", s), as a set
Identifiers(s) == { SubSeq(s, i, RunEnd(s, i)) : i \in IdentStarts(s) }

\* "/".join(parts) has these parts
PathParts(path) ==
    LET cuts == { i \in 1..Len(path) : path[i] = "/" } \cup { 0, Len(path) + 1 }
    IN { SubSeq(path, a + 1, b - 1) :
            <<a, b>> \in { c \in cuts \X cuts :
                             /\ c[1] < c[2]
                             /\ \A m \in cuts : ~(c[1] < m /\ m < c[2]) } }

\* Path(path).name
BaseName(path) ==
    LET slashes == { i \in 1..Len(path) : path[i] = "/" }
    IN IF slashes = {} THEN path
       ELSE SubSeq(path, Max(slashes) + 1, Len(path))

\* Path(path).suffix.lower(), for the lower-case names of the model
Suffix(path) ==
    LET name == BaseName(path)
        dots == { i \in 2..Len(name) : name[i] = "." }
    IN IF dots = {} \/ Max(dots) = Len(name) THEN <<>>
       ELSE SubSeq(name, Max(dots), Len(name))

(***************************************************************************)
(* Constants of server.py and raw_signal.py.                               *)
(***************************************************************************)
\* server.py and raw_signal.py hold the same set
BINARY_EXTENSIONS ==
    { <<".", "p", "d", "f">>, <<".", "p", "n", "g">>, <<".", "j", "p", "g">>, <<".", "j", "p", "e", "g">>, <<".", "g", "i", "f">>,
      <<".", "z", "i", "p">>, <<".", "t", "a", "r">>, <<".", "g", "z">>, <<".", "e", "x", "e">>, <<".", "d", "l", "l">>,
      <<".", "d", "o", "c", "x">>, <<".", "p", "p", "t", "x">>, <<".", "x", "l", "s", "x">> }

\* server.py's
EXCLUDED_DIRS ==
    { <<"n", "o", "d", "e", "_", "m", "o", "d", "u", "l", "e", "s">>, <<".", "v", "e", "n", "v">>,
      <<"v", "e", "n", "v">>, <<"_", "_", "p", "y", "c", "a", "c", "h", "e", "_", "_">>,
      <<".", "g", "i", "t">>, <<".", "c", "a", "c", "h", "e">>,
      <<"d", "i", "s", "t">>, <<"b", "u", "i", "l", "d">>,
      <<"t", "a", "r", "g", "e", "t">>, <<"o", "u", "t">>,
      <<"c", "o", "v", "e", "r", "a", "g", "e">>, <<".", "i", "d", "e", "a">>,
      <<".", "v", "s", "c", "o", "d", "e">> }

\* raw_signal.py's
SIGNAL_EXCLUDED_DIRS ==
    { <<"n", "o", "d", "e", "_", "m", "o", "d", "u", "l", "e", "s">>, <<".", "v", "e", "n", "v">>,
      <<"v", "e", "n", "v">>, <<"_", "_", "p", "y", "c", "a", "c", "h", "e", "_", "_">>,
      <<".", "g", "i", "t">>, <<".", "c", "a", "c", "h", "e">>,
      <<"d", "i", "s", "t">>, <<"b", "u", "i", "l", "d">>,
      <<"t", "a", "r", "g", "e", "t">>, <<"o", "u", "t">>,
      <<"c", "o", "v", "e", "r", "a", "g", "e">>, <<".", "i", "d", "e", "a">>,
      <<".", "v", "s", "c", "o", "d", "e">>, <<"s", "i", "t", "e", "-", "p", "a", "c", "k", "a", "g", "e", "s">>,
      <<"L", "i", "b">>, <<"S", "c", "r", "i", "p", "t", "s">>,
      <<"b", "i", "n">>, <<"I", "n", "c", "l", "u", "d", "e">> }

THIRD_PARTY_MARKERS ==
    << <<"s", "i", "t", "e", "-", "p", "a", "c", "k", "a", "g", "e", "s">>, <<".", "v", "e", "n", "v">>,
       <<"v", "e", "n", "v">>, <<"n", "o", "d", "e", "_", "m", "o", "d", "u", "l", "e", "s">>,
       <<"d", "i", "s", "t">>, <<"b", "u", "i", "l", "d">> >>

EXTERNAL_PATTERNS ==
    << <<"o", "p", "e", "n", "(">>, <<"r", "e", "q", "u", "e", "s", "t", "s", ".">>,
       <<"s", "u", "b", "p", "r", "o", "c", "e", "s", "s", ".">>, <<"o", "s", ".", "s", "y", "s", "t", "e", "m", "(">> >>

EXPENSIVE_METHOD_HINTS ==
    { <<"f", "i", "t">>, <<"t", "r", "a", "i", "n">>,
      <<"c", "o", "m", "p", "i", "l", "e">>, <<"o", "p", "t", "i", "m", "i", "z", "e">>,
      <<"p", "r", "e", "d", "i", "c", "t">>, <<"i", "n", "f", "e", "r">>,
      <<"e", "v", "a", "l", "u", "a", "t", "e">>, <<"l", "o", "a", "d">>,
      <<"s", "a", "v", "e">>, <<"f", "r", "o", "m", "_", "p", "r", "e", "t", "r", "a", "i", "n", "e", "d">>,
      <<"d", "e", "s", "e", "r", "i", "a", "l", "i", "z", "e">>, <<"b", "u", "i", "l", "d">>,
      <<"i", "n", "i", "t", "i", "a", "l", "i", "z", "e">> }

\* the hint for while is left out
LOOP_HINTS_FOR == { <<"f", "o", "r", " ">> }

LOOP_HINTS ==
    { <<"f", "o", "r", " ">>, <<"w", "h", "i", "l", "e", " ">> }

ASYNC_HINTS ==
    { <<"a", "s", "y", "n", "c", " ", "d", "e", "f">>, <<"a", "w", "a", "i", "t", " ">> }

ALLOWED_EXTENSIONS ==
    { <<".", "p", "y">>, <<".", "p", "y", "w">>, <<".", "p", "y", "i">>, <<".", "j", "s">>, <<".", "j", "s", "x">>, <<".", "t", "s">>,
      <<".", "t", "s", "x">>, <<".", "m", "j", "s">>, <<".", "c", "j", "s">>, <<".", "j", "a", "v", "a">>, <<".", "k", "t">>, <<".", "k", "t", "s">>,
      <<".", "s", "c", "a", "l", "a">>, <<".", "g", "r", "o", "o", "v", "y">>, <<".", "c">>, <<".", "h">>, <<".", "c", "p", "p">>, <<".", "c", "c">>,
      <<".", "c", "x", "x">>, <<".", "h", "p", "p">>, <<".", "h", "x", "x">>, <<".", "c", "s">>, <<".", "f", "s">>, <<".", "f", "s", "x">>,
      <<".", "v", "b">>, <<".", "g", "o">>, <<".", "r", "s">>, <<".", "r", "b">>, <<".", "p", "h", "p">>, <<".", "s", "w", "i", "f", "t">>,
      <<".", "m">>, <<".", "m", "m">>, <<".", "r">>, <<".", "R">>, <<".", "d", "a", "r", "t">>, <<".", "l", "u", "a">>,
      <<".", "e", "x">>, <<".", "e", "x", "s">>, <<".", "e", "r", "l">>, <<".", "h", "s">> }

KW_DEF == <<"d", "e", "f", " ">>

KW_CLASS == <<"c", "l", "a", "s", "s", " ">>

TRY_QUERY == <<"t", "r", "y", ":">>

WORKSPACE_ROOT == <<"/", "w">>

MAX_RESULTS == 50

MAX_FILES_SCANNED == 300

(***************************************************************************)
(* read_file (server.py lines 60-85) and the files it may be asked for.    *)
(***************************************************************************)
\* the parts of a path text between its slashes, in order
SplitPath(p) ==
    LET cuts == { i \in 1..Len(p) : p[i] = "/" } \cup { 0, Len(p) + 1 }
        CutAt(k) == CHOOSE c \in cuts : Cardinality({ d \in cuts : d < c }) = k - 1
    IN [k \in 1..(Cardinality(cuts) - 1) |->
           SubSeq(p, CutAt(k) + 1, CutAt(k + 1) - 1)]

\* str() of the absolute path with these parts
PathStr(parts) ==
    LET Acc[k \in 0..Len(parts)] ==
            IF k = 0 THEN <<>> ELSE Acc[k - 1] \o <<"/">> \o parts[k]
    IN IF parts = <<>> THEN <<"/">> ELSE Acc[Len(parts)]

\* WORKSPACE_ROOT / p: an absolute p replaces the root
Joined(p) ==
    IF Len(p) > 0 /\ p[1] = "/"
    THEN SplitPath(p)
    ELSE SplitPath(WORKSPACE_ROOT) \o SplitPath(p)

\* Path.resolve() where nothing is a symbolic link: empty parts and "." go,
\* ".." takes the part before it away
Resolve(parts) ==
    LET Acc[k \in 0..Len(parts)] ==
            IF k = 0 THEN <<>>
            ELSE LET prev == Acc[k - 1] IN
                 IF parts[k] \in { <<>>, <<".">> } THEN prev
                 ELSE IF parts[k] = <<".", ".">>
                 THEN (IF prev = <<>> THEN prev ELSE SubSeq(prev, 1, Len(prev) - 1))
                 ELSE Append(prev, parts[k])
    IN Acc[Len(parts)]

\* the files and directories on the disk: the workspace /w and its sibling /w2
FILES ==
    { [parts |-> << <<"w">> >>, kind |-> "dir", text |-> ""],
      [parts |-> << <<"w">>, <<"a", ".", "p", "y">> >>, kind |-> "file", text |-> "text of a.py"],
      [parts |-> << <<"w">>, <<"x", ".", "p", "n", "g">> >>, kind |-> "file", text |-> "image"],
      [parts |-> << <<"w", "2">> >>, kind |-> "dir", text |-> ""],
      [parts |-> << <<"w", "2">>, <<"s", ".", "t", "x", "t">> >>, kind |-> "file", text |-> "text of /w2/s.txt"],
      [parts |-> << <<"w", "2">>, <<"x", ".", "p", "n", "g">> >>, kind |-> "file", text |-> "image"] }

\* file_path.exists(), file_path.is_file(), file_path.read_text()
Exists(parts) == parts = <<>> \/ \E f \in FILES : f.parts = parts

IsFile(parts) == \E f \in FILES : f.parts = parts /\ f.kind = "file"

ReadText(parts) == (CHOOSE f \in FILES : f.parts = parts).text

\* the parts a path argument is made of
SEGMENTS == { <<".", ".">>, <<"a", ".", "p", "y">>, <<"x", ".", "p", "n", "g">>, <<"w">>, <<"w", "2">>, <<"s", ".", "t", "x", "t">>, <<"n", "o", "p", "e">> }

\* parts of a path argument
MaxParts == 3

\* "/".join of parts
JoinParts(parts) ==
    LET Acc[k \in 0..Len(parts)] ==
            IF k = 0 THEN <<>>
            ELSE IF k = 1 THEN parts[1]
            ELSE Acc[k - 1] \o <<"/">> \o parts[k]
    IN Acc[Len(parts)]

\* the path arguments read_file is called with: relative and absolute
Paths ==
    LET lists == UNION { [1..k -> SEGMENTS] : k \in 1..MaxParts }
    IN { JoinParts(l) : l \in lists } \cup { <<"/">> \o JoinParts(l) : l \in lists }

ACCESS_DENIED == "Access Denied: Path outside workspace"

FilesIdle ==
    /\ read_path = <<>>
    /\ file_path = <<>>
    /\ rpc = "idle"
    /\ read_result = <<"none">>

\* read_file is called with a path
FilesInit ==
    /\ read_path \in Paths
    /\ file_path = <<>>
    /\ rpc = "called"
    /\ read_result = <<"none">>

ReadFileRaises(error) ==
    /\ rpc' = "raised"
    /\ read_result' = <<"raise", error>>

\* line 65
ReadFileResolve ==
    /\ rpc = "called"
    /\ file_path' = Resolve(Joined(read_path))
    /\ rpc' = "resolved"
    /\ UNCHANGED <<read_path, read_result>>
    /\ UNCHANGED <<loopVars, sigVars, cliVars, peer>>

\* lines 68-69
ReadFileAccess ==
    /\ rpc = "resolved"
    /\ IF ~StartsAt(PathStr(file_path), WORKSPACE_ROOT, 1)
       THEN ReadFileRaises(ACCESS_DENIED)
       ELSE rpc' = "inside" /\ UNCHANGED read_result
    /\ UNCHANGED <<read_path, file_path>>
    /\ UNCHANGED <<loopVars, sigVars, cliVars, peer>>

\* lines 71-72
ReadFileExists ==
    /\ rpc = "inside"
    /\ IF ~Exists(file_path)
       THEN ReadFileRaises("File not found")
       ELSE rpc' = "exists" /\ UNCHANGED read_result
    /\ UNCHANGED <<read_path, file_path>>
    /\ UNCHANGED <<loopVars, sigVars, cliVars, peer>>

\* lines 74-75
ReadFileIsFile ==
    /\ rpc = "exists"
    /\ IF ~IsFile(file_path)
       THEN ReadFileRaises("Not a file")
       ELSE rpc' = "is_file" /\ UNCHANGED read_result
    /\ UNCHANGED <<read_path, file_path>>
    /\ UNCHANGED <<loopVars, sigVars, cliVars, peer>>

\* lines 77-78
ReadFileSuffix ==
    /\ rpc = "is_file"
    /\ IF Suffix(PathStr(file_path)) \in BINARY_EXTENSIONS
       THEN ReadFileRaises("Binary file type is not supported by read_file")
       ELSE rpc' = "textual" /\ UNCHANGED read_result
    /\ UNCHANGED <<read_path, file_path>>
    /\ UNCHANGED <<loopVars, sigVars, cliVars, peer>>

\* lines 80-83
ReadFileText ==
    /\ rpc = "textual"
    /\ rpc' = "returned"
    /\ read_result' = <<"return", ReadText(file_path)>>
    /\ UNCHANGED <<read_path, file_path>>
    /\ UNCHANGED <<loopVars, sigVars, cliVars, peer>>

ReadFileNext ==
    \/ ReadFileResolve
    \/ ReadFileAccess
    \/ ReadFileExists
    \/ ReadFileIsFile
    \/ ReadFileSuffix
    \/ ReadFileText

(***************************************************************************)
(* The workspace the Signal Collector reads.                               *)
(***************************************************************************)
\* lines a file is made of
LineLib ==
    << <<"d", "e", "f", " ", "f", "o", "o", "(", ")", ":">>,
       <<"f", "o", "o", "(", ")">>,
       <<>> >>

\* lines per generated file
MaxLines == 2

FOO == <<"f", "o", "o">>

PATH_A == <<"a", ".", "p", "y">>

PATH_B == <<"b", ".", "p", "y">>

LinesUpTo(n) == UNION { [1..k -> Range(LineLib)] : k \in 1..n }

\* def foo(): at a.py:1, and foo() only at b.py:5
EXAMPLE_TREE ==
    << [path |-> PATH_A, lines |-> << <<"d", "e", "f", " ", "f", "o", "o", "(", ")", ":">> >>],
       [path |-> PATH_B, lines |-> << <<>>, <<>>, <<>>, <<>>, <<"f", "o", "o", "(", ")">> >>] >>

\* a class and a function of one name
CLASS_TREE ==
    << [path |-> PATH_A, lines |-> << <<"c", "l", "a", "s", "s", " ", "f", "o", "o", "(", "B", ")", ":">>, <<"x", " ", "=", " ", "f", "o", "o", "(", ")">> >>],
       [path |-> PATH_B, lines |-> << <<"d", "e", "f", " ", "f", "o", "o", "(", ")", ":">> >>] >>

\* a function with a name of one letter, and a call of foo
SHORT_NAME_TREE ==
    << [path |-> PATH_A, lines |-> << <<"d", "e", "f", " ", "f", "(", ")", ":">>, <<"f", "o", "o", "(", ")">> >>] >>

BAR == <<"b", "a", "r">>

\* def bar(): at a.py:3 and nothing else
BAR_TREE ==
    << [path |-> PATH_A, lines |-> << <<>>, <<>>, <<"d", "e", "f", " ", "b", "a", "r", "(", ")", ":">> >>] >>

\* def bar(): at a.py:3, and the text bar, never bar(, in b.py
BAR_TEXT_TREE ==
    << [path |-> PATH_A, lines |-> << <<>>, <<>>, <<"d", "e", "f", " ", "b", "a", "r", "(", ")", ":">> >>],
       [path |-> PATH_B, lines |-> << <<"b", "a", "r", " ", "=", " ", "1">> >>] >>

FIT == <<"f", "i", "t">>

FIT_CALL == <<"m", "o", "d", "e", "l", ".", "f", "i", "t", "(", "x", ",", " ", "y", ")">>

\* model.fit(x, y) in a for body, on the header's line, in a while loop and
\* awaited
FIT_TREE ==
    << [path |-> PATH_A,
        lines |-> << <<"f", "o", "r", " ", "x", " ", "i", "n", " ", "x", "s", ":">>,
                     <<" ", " ", " ", " ", "m", "o", "d", "e", "l", ".", "f", "i", "t", "(", "x", ",", " ", "y", ")">>,
                     <<"f", "o", "r", " ", "x", " ", "i", "n", " ", "x", "s", ":", " ", "m", "o", "d", "e", "l", ".", "f", "i", "t", "(", "x", ",", " ", "y", ")">> >>],
       [path |-> PATH_B,
        lines |-> << <<"w", "h", "i", "l", "e", " ", "g", "o", ":", " ", "m", "o", "d", "e", "l", ".", "f", "i", "t", "(", "x", ",", " ", "y", ")">>,
                     <<"a", "w", "a", "i", "t", " ", "m", "o", "d", "e", "l", ".", "f", "i", "t", "(", "x", ",", " ", "y", ")">> >>] >>

PATH_REBUILD == <<"r", "e", "b", "u", "i", "l", "d", ".", "p", "y">>

PATH_VENDORED == <<"s", "i", "t", "e", "-", "p", "a", "c", "k", "a", "g", "e", "s", "/", "v", ".", "p", "y">>

\* foo defined in a.py, in rebuild.py and under site-packages
THIRD_PARTY_TREE ==
    << [path |-> PATH_A, lines |-> << <<"d", "e", "f", " ", "f", "o", "o", "(", ")", ":">> >>],
       [path |-> PATH_REBUILD, lines |-> << <<>>, <<"d", "e", "f", " ", "f", "o", "o", "(", ")", ":">> >>],
       [path |-> PATH_VENDORED, lines |-> << <<>>, <<>>, <<"c", "l", "a", "s", "s", " ", "f", "o", "o", "(", "B", ")", ":">> >>] >>

\* the subtrees collect_signals is run on: the files in rglob's order
Trees ==
    { << [path |-> PATH_A, lines |-> la], [path |-> PATH_B, lines |-> lb] >> :
         la \in LinesUpTo(MaxLines), lb \in LinesUpTo(MaxLines) }
    \cup { EXAMPLE_TREE, CLASS_TREE, SHORT_NAME_TREE, BAR_TREE, BAR_TEXT_TREE,
           FIT_TREE, THIRD_PARTY_TREE }

(***************************************************************************)
(* search_code, the Search Primitive behind search_fn.                     *)
(***************************************************************************)
AbsPath(path) == WORKSPACE_ROOT \o <<"/">> \o path

\* the tokens of a query: identifiers longer than 2
Tokens(query) == { t \in Identifiers(query) : Len(t) > 2 }

\* the files search_code opens, in order, at most MAX_FILES_SCANNED of them
Scanned(files) ==
    LET eligible == SelectSeq(files, LAMBDA f :
                        /\ PathParts(AbsPath(f.path)) \cap EXCLUDED_DIRS = {}
                        /\ Suffix(f.path) \notin BINARY_EXTENSIONS)
    IN SubSeq(eligible, 1, IF Len(eligible) < MAX_FILES_SCANNED
                           THEN Len(eligible) ELSE MAX_FILES_SCANNED)

\* the matches of one file: every line that contains some token
FileHits(f, tokens) ==
    LET Acc[n \in 0..Len(f.lines)] ==
            IF n = 0 THEN <<>>
            ELSE IF \E t \in tokens : Contains(f.lines[n], t)
                 THEN Append(Acc[n - 1],
                             [file |-> f.path, line |-> n,
                              snippet |-> Strip(f.lines[n])])
                 ELSE Acc[n - 1]
    IN Acc[Len(f.lines)]

AllHits(files, tokens) ==
    LET Acc[k \in 0..Len(files)] ==
            IF k = 0 THEN <<>> ELSE Acc[k - 1] \o FileHits(files[k], tokens)
    IN Acc[Len(files)]

\* search_code(query, path), for a path that exists inside the workspace:
\* the matches, or the ValueError it raises
search_code(query, files) ==
    IF Tokens(query) = {}
    THEN [ok |-> FALSE, error |-> "Query does not contain searchable tokens",
          hits |-> <<>>]
    ELSE LET all == AllHits(Scanned(files), Tokens(query))
         IN [ok |-> TRUE, error |-> "",
             hits |-> SubSeq(all, 1, IF Len(all) < MAX_RESULTS
                                     THEN Len(all) ELSE MAX_RESULTS)]

(***************************************************************************)
(* raw_signal.py: the pure steps.                                          *)
(***************************************************************************)
is_third_party(path) ==
    \E i \in 1..Len(THIRD_PARTY_MARKERS) : Contains(path, THIRD_PARTY_MARKERS[i])

\* defs.setdefault(name, {...}): the first entry of a name stays
DictSetDefault(defs, name, file, line) ==
    IF \E i \in 1..Len(defs) : defs[i].name = name
    THEN defs
    ELSE Append(defs, [name |-> name, file |-> file, line |-> line])

\* defs[name] = {...}: a dict keeps the place of a key it already holds
DictPut(defs, name, file, line) ==
    IF \E i \in 1..Len(defs) : defs[i].name = name
    THEN [i \in 1..Len(defs) |->
             IF defs[i].name = name
             THEN [name |-> name, file |-> file, line |-> line] ELSE defs[i]]
    ELSE Append(defs, [name |-> name, file |-> file, line |-> line])

\* parts[1].split("(")[0].strip()
ExtractName(snippet, kw) == Strip(Before(SplitSecond(snippet, kw), <<"(">>))

\* lines 27-50: one pass of collect_definitions over a search's results
DefinitionsPass(defs, results, kw) ==
    LET Acc[k \in 0..Len(results)] ==
            IF k = 0 THEN defs
            ELSE LET r == results[k] IN
                 IF is_third_party(r.file) THEN Acc[k - 1]
                 ELSE IF ~Contains(r.snippet, kw) THEN Acc[k - 1]
                 ELSE IF ExtractName(r.snippet, kw) = <<>> THEN Acc[k - 1]
                 ELSE DictPut(Acc[k - 1], ExtractName(r.snippet, kw),
                              r.file, r.line)
    IN Acc[Len(results)]

\* a hit counts unless it is the definition itself, file and line
IsUsageOffDefinition(r, definition) ==
    r.line # definition.line \/ r.file # definition.file

\* line 61: a hit counts as a usage
IsUsage(r, definition) == r.line # definition.line

\* lines 60-62: the files of the hits that count
UsageFiles(results, definition) ==
    LET Acc[k \in 0..Len(results)] ==
            IF k = 0 THEN <<>>
            ELSE IF IsUsage(results[k], definition)
                 THEN Append(Acc[k - 1], results[k].file)
                 ELSE Acc[k - 1]
    IN Acc[Len(results)]

\* the lists of an earlier run are kept
CarriedUsages(defs) ==
    [k \in 1..Len(defs) |->
        [name |-> defs[k].name,
         files |-> IF k <= Len(usages) THEN usages[k].files ELSE <<>>]]

\* line 55: usages = {name: [] for name in definitions}
NewUsages(defs) ==
    [k \in 1..Len(defs) |-> [name |-> defs[k].name, files |-> <<>>]]

\* lines 64-71
Unused(usgs, defs) ==
    LET Acc[k \in 0..Len(usgs)] ==
            IF k = 0 THEN <<>>
            ELSE IF usgs[k].files = <<>>
                 THEN Append(Acc[k - 1],
                             [symbol |-> usgs[k].name,
                              defined_in |-> [file |-> defs[k].file,
                                              line |-> defs[k].line]])
                 ELSE Acc[k - 1]
    IN Acc[Len(usgs)]

\* lines 83-88
ExternalCalls(results) ==
    [k \in 1..Len(results) |->
        [file |-> results[k].file, line |-> results[k].line,
         snippet |-> results[k].snippet]]

\* lines 97-101
TryBlocks(results) ==
    [k \in 1..Len(results) |-> [file |-> results[k].file, line |-> results[k].line]]

\* the first character after position e that is no whitespace, "" at the end
NextInk(text, e) ==
    LET inked == { i \in (e + 1)..Len(text) : text[i] \notin WHITESPACE }
    IN IF inked = {} THEN ""
       ELSE text[CHOOSE i \in inked : \A j \in inked : i <= j]

\* where re.search(r"([A-Za-z_][A-Za-z0-9_]*)\s*\(", text) may match
CallStarts(text) ==
    { i \in 1..Len(text) :
        IsIdentStart(text[i]) /\ NextInk(text, RunEnd(text, i)) = "(" }

\* m.group(1) of the leftmost match
FirstCallee(text) ==
    LET i == CHOOSE a \in CallStarts(text) : \A b \in CallStarts(text) : a <= b
    IN SubSeq(text, i, RunEnd(text, i))

\* lines 146-161: the files iter_source_lines reads
SourceFiles(files) ==
    SelectSeq(files, LAMBDA f :
        /\ \A seg \in SIGNAL_EXCLUDED_DIRS : ~Contains(AbsPath(f.path), seg)
        /\ Suffix(f.path) \notin BINARY_EXTENSIONS
        /\ Suffix(f.path) \in ALLOWED_EXTENSIONS)

\* lines 195-198: the two signals of a line
LineSignals(line) ==
    [inside_loop |-> \E h \in LOOP_HINTS : Contains(line, h),
     async_context |-> \E h \in ASYNC_HINTS : Contains(line, h)]

\* lines 178-199, for the lines of one file
FileOps(f) ==
    LET Acc[n \in 0..Len(f.lines)] ==
            IF n = 0 THEN <<>>
            ELSE LET line == RStrip(f.lines[n]) IN
                 IF CallStarts(line) = {} THEN Acc[n - 1]
                 ELSE IF FirstCallee(line) \notin EXPENSIVE_METHOD_HINTS
                 THEN Acc[n - 1]
                 ELSE Append(Acc[n - 1],
                        [file |-> f.path, line |-> n, method |-> FirstCallee(line),
                         signals |-> LineSignals(line)])
    IN Acc[Len(f.lines)]

\* collect_expensive_ops
ExpensiveOps(files) ==
    LET src == SourceFiles(files)
        Acc[k \in 0..Len(src)] ==
            IF k = 0 THEN <<>> ELSE Acc[k - 1] \o FileOps(src[k])
    IN Acc[Len(src)]

(***************************************************************************)
(* collect_signals: the steps, one per awaited search.                     *)
(***************************************************************************)
\* the search_fn collect_signals is given
search_fn(query) == search_code(query, tree)

EMPTY_REPORT ==
    [definitions |-> <<>>, usages |-> <<>>, unused |-> <<>>,
     external_calls |-> <<>>, try_blocks |-> <<>>, expensive_ops |-> <<>>]

SigBlank ==
    /\ spc = "idle"
    /\ definitions = <<>>
    /\ usages = <<>>
    /\ unused = <<>>
    /\ external_calls = <<>>
    /\ try_blocks = <<>>
    /\ ui = 0
    /\ ei = 0
    /\ report = EMPTY_REPORT
    /\ serr = ""
    /\ reports = <<>>

\* no collection is asked for
SigIdle ==
    /\ tree = <<>>
    /\ SigBlank

\* collect_signals is about to be called on a subtree
SigInit ==
    /\ tree \in Trees
    /\ SigBlank

\* an exception leaves collect_signals
Raises(error) ==
    /\ spc' = "raised"
    /\ serr' = error

\* line 204: collect_signals is called, for the first time or again
CollectSignals ==
    /\ spc \in {"idle", "returned"}
    /\ tree # <<>>
    /\ Len(reports) < MaxRuns
    /\ spc' = "defs_def"
    /\ UNCHANGED <<tree, definitions, usages, unused, external_calls,
                   try_blocks, ui, ei, report, serr, reports>>
    /\ UNCHANGED besideSignals

\* lines 22, 24-50: defs = {}, then kw = "def "
CollectDefs ==
    /\ spc = "defs_def"
    /\ LET r == search_fn(KW_DEF) IN
          IF r.ok
          THEN /\ definitions' = DefinitionsPass(<<>>, r.hits, KW_DEF)
               /\ spc' = "defs_class"
               /\ UNCHANGED serr
          ELSE /\ Raises(r.error)
               /\ UNCHANGED definitions
    /\ UNCHANGED <<tree, usages, unused, external_calls, try_blocks,
                   ui, ei, report, reports>>
    /\ UNCHANGED besideSignals

\* lines 24-52, kw = "class "; then line 55
CollectClasses ==
    /\ spc = "defs_class"
    /\ LET r == search_fn(KW_CLASS) IN
          IF r.ok
          THEN /\ definitions' = DefinitionsPass(definitions, r.hits, KW_CLASS)
               /\ usages' = NewUsages(definitions')
               /\ ui' = 1
               /\ spc' = "usages"
               /\ UNCHANGED serr
          ELSE /\ Raises(r.error)
               /\ UNCHANGED <<definitions, usages, ui>>
    /\ UNCHANGED <<tree, unused, external_calls, try_blocks, ei, report,
                   reports>>
    /\ UNCHANGED besideSignals

\* lines 57-62: the search for one name
CollectUsagesOf ==
    /\ spc = "usages"
    /\ ui <= Len(definitions)
    /\ LET r == search_fn(definitions[ui].name \o <<"(">>) IN
          IF r.ok
          THEN /\ usages' = [usages EXCEPT
                                ![ui].files = @ \o UsageFiles(r.hits, definitions[ui])]
               /\ ui' = ui + 1
               /\ UNCHANGED <<spc, serr>>
          ELSE /\ Raises(r.error)
               /\ UNCHANGED <<usages, ui>>
    /\ UNCHANGED <<tree, definitions, unused, external_calls,
                   try_blocks, ei, report, reports>>
    /\ UNCHANGED besideSignals

\* lines 64-73: every name is searched; the unused list
CollectUnused ==
    /\ spc = "usages"
    /\ ui > Len(definitions)
    /\ unused' = Unused(usages, definitions)
    /\ ei' = 1
    /\ spc' = "external"
    /\ UNCHANGED <<tree, definitions, usages, external_calls,
                   try_blocks, ui, report, serr, reports>>
    /\ UNCHANGED besideSignals

\* lines 78, 80-90: calls = [] before the first pattern, then the search for
\* one pattern
CollectExternalCalls ==
    /\ spc = "external"
    /\ LET r == search_fn(EXTERNAL_PATTERNS[ei]) IN
          IF r.ok
          THEN /\ external_calls' =
                     (IF ei = 1 THEN <<>> ELSE external_calls) \o ExternalCalls(r.hits)
               /\ ei' = ei + 1
               /\ spc' = IF ei < Len(EXTERNAL_PATTERNS) THEN "external" ELSE "try"
               /\ UNCHANGED serr
          ELSE /\ Raises(r.error)
               /\ UNCHANGED <<external_calls, ei>>
    /\ UNCHANGED <<tree, definitions, usages, unused, try_blocks,
                   ui, report, reports>>
    /\ UNCHANGED besideSignals

\* lines 92-103
CollectTryBlocks ==
    /\ spc = "try"
    /\ LET r == search_fn(TRY_QUERY) IN
          IF r.ok
          THEN /\ try_blocks' = TryBlocks(r.hits)
               /\ spc' = "expensive"
               /\ UNCHANGED serr
          ELSE /\ Raises(r.error)
               /\ UNCHANGED try_blocks
    /\ UNCHANGED <<tree, definitions, usages, unused, external_calls,
                   ui, ei, report, reports>>
    /\ UNCHANGED besideSignals

\* lines 175-201, 207-214: the expensive operations, and the report
CollectExpensiveOps ==
    /\ spc = "expensive"
    /\ report' = [definitions |-> definitions, usages |-> usages,
                  unused |-> unused, external_calls |-> external_calls,
                  try_blocks |-> try_blocks,
                  expensive_ops |-> ExpensiveOps(tree)]
    /\ reports' = Append(reports, report')
    /\ spc' = "returned"
    /\ UNCHANGED <<tree, definitions, usages, unused, external_calls,
                   try_blocks, ui, ei, serr>>
    /\ UNCHANGED besideSignals

SignalsNext ==
    \/ CollectSignals
    \/ CollectDefs
    \/ CollectClasses
    \/ CollectUsagesOf
    \/ CollectUnused
    \/ CollectExternalCalls
    \/ CollectTryBlocks
    \/ CollectExpensiveOps

(***************************************************************************)
(* The specifications.                                                     *)
(***************************************************************************)
vars == <<loopVars, sigVars, cliVars, peer, fileVars>>

\* a query run, called by an MCP client, by cli main or through
\* MCPClient.ask; no collection, no second run
Init ==
    /\ \/ LoopInit /\ CliNone
       \/ LoopWaiting /\ CliMain
       \/ LoopWaiting /\ CliAsking
    /\ SigIdle
    /\ PeerIdle
    /\ FilesIdle

Next == LoopNextStep \/ CliNext

Spec == Init /\ [][Next]_vars

\* every call returns or raises: no step of a run is put off for ever
FairSpec == Spec /\ WF_vars(Next)

\* a collect_signals run; no query
LoopIdle ==
    /\ registry = <<"query">>
    /\ regChanges = 0
    /\ pc = "Idle"
    /\ step = 0
    /\ tool_schemas = <<>>
    /\ messages = <<>>
    /\ msg = [role |-> "assistant", content |-> None, tool_calls |-> <<>>]
    /\ ci = 0
    /\ resolved = "none"
    /\ result = <<"running">>

InitSignals == LoopIdle /\ SigInit /\ CliNone /\ PeerIdle /\ FilesIdle

SpecSignals == InitSignals /\ [][SignalsNext]_vars

\* two query runs on one server, interleaved at their suspension points
InitConcurrent ==
    /\ LoopInit
    /\ registry = SERVER_REGISTRY
    /\ CliNone
    /\ peer = [IDLE_RUN EXCEPT !.pc = "Start", !.question = PEER_QUESTION]
    /\ SigIdle
    /\ FilesIdle

ConcurrentNext ==
    \/ Start
    \/ ServiceAnswer
    \/ ServiceToolCalls
    \/ ServiceFail
    \/ DispatchMalformed
    \/ DispatchReturn
    \/ DispatchRaise
    \/ PeerStep

SpecConcurrent == InitConcurrent /\ [][ConcurrentNext]_vars

\* a read_file call; no query, no collection
InitReadFile == LoopIdle /\ SigIdle /\ CliNone /\ PeerIdle /\ FilesInit

SpecReadFile == InitReadFile /\ [][ReadFileNext]_vars

(***************************************************************************)
(* Reading the conversation.                                               *)
(***************************************************************************)
Assistants(ms) == { i \in 1..Len(ms) : ms[i].role = "assistant" }

ToolMsgs(ms) == { i \in 1..Len(ms) : ms[i].role = "tool" }

IsErrorText(content) == content[1] = "Error calling tool"

\* the latest turn requested invocations, one of them raised inside
\* mcp.call_tool, and not all of the turn's invocations are answered yet
RaisedInOpenTurn ==
    /\ Assistants(messages) # {}
    /\ LET i == Max(Assistants(messages))
       IN /\ Len(messages) - i < Len(messages[i].tool_calls)
          /\ \E k \in (i + 1)..Len(messages) : IsErrorText(messages[k].content)

Terminated == pc \in {"Done", "Exhausted", "Raised"}

(***************************************************************************)
(* Claims about the Orchestration Loop.                                    *)
(***************************************************************************)
\* C1: a run issues at most MAX_STEPS = 20 reasoning-service calls, whatever
\* the service replies: the count never exceeds 20, and after the 20th call
\* the run is never again waiting to issue one.
C1_AtMostMaxStepsCalls ==
    /\ step <= MAX_STEPS
    /\ pc = "Reasoning" => step < MAX_STEPS

C1_Witness == step = MAX_STEPS /\ pc = "Exhausted"

\* C2: the tool list query sends to the reasoning service never names query,
\* whatever the registry holds.
C2_NeverAdvertisesItself == SELF \notin Range(tool_schemas)

C2_Witness ==
    /\ step >= 2
    /\ SELF \in Range(registry)
    /\ Len(tool_schemas) >= 2

\* C3 (as claimed): once an invocation of a turn has raised and its error is
\* in the conversation, query goes on dispatching the turn's remaining
\* invocations.
C3_RaiseNeverEndsTheTurn == RaisedInOpenTurn => pc = "Dispatching"

\* C4 (as claimed): no tool-level error reaches the caller; query raises only
\* when the reasoning-service call itself fails.
C4_ToolErrorsNeverRaised == pc = "Raised" => result = <<"raise", "APIError">>

C6_ReturnsExactlyTheContent == pc = "Done" => result = <<"return", msg.content>>

\* C6 (amended): a turn without tool invocations ends the run at once, with
\* the turn's content as the answer when the content is a non-empty text and
\* with "No answer generated." when it is empty or absent; the turn is not
\* appended to the conversation and nothing is dispatched for it.
C6_ReturnsContentOrNoAnswer ==
    pc = "Done" =>
        /\ Len(msg.tool_calls) = 0
        /\ result = <<"return",
                      IF msg.content \in {None, ""}
                      THEN "No answer generated." ELSE msg.content>>
        /\ Cardinality(Assistants(messages)) = step - 1
        /\ ci = 0

C6_Witness == pc = "Done" /\ msg.content = "" /\ step = MAX_STEPS

C6_WitnessText == pc = "Done" /\ msg.content = "an answer"

\* C7 (as claimed): a run whose 20 turns all requested invocations ends
\* Exhausted with the fixed response and does not raise; a run is Exhausted
\* only if none of its turns was a direct answer.
C7_TwentyToolTurnsExhaust ==
    /\ (Terminated /\ Cardinality(Assistants(messages)) = MAX_STEPS) =>
          /\ pc = "Exhausted"
          /\ result = <<"return", STEP_LIMIT_ANSWER>>
    /\ pc = "Exhausted" =>
          /\ step = MAX_STEPS
          /\ Cardinality(Assistants(messages)) = MAX_STEPS

\* C8 (as claimed): the tool list sent with a reasoning-service call is the
\* registry as it is at that call, without query.
C8_ListFollowsLiveRegistry ==
    [][step' = step + 1 => Range(tool_schemas) = Range(registry) \ {SELF}]_vars

(***************************************************************************)
(* Claims about the Signal Collector.                                      *)
(***************************************************************************)
\* C9 (as claimed): collect_signals never throws, whatever the subtree holds
\* and whatever the Search Primitive does.
C9_CollectSignalsNeverThrows == spc # "raised"

\* the hits of the usage search for the k-th definition
UsageHits(k) == search_fn(definitions[k].name \o <<"(">>).hits

\* the definitions whose usage search is over
Searched ==
    IF spc \in {"idle", "defs_def", "defs_class"} THEN {}
    ELSE { k \in 1..Len(definitions) : k < ui }

\* C10: the usages of a definition are the files of the hits of the search
\* for "<name>(", in the order of the hits, leaving out every hit on the
\* definition's line number, whichever file it is in.  With def foo(): at
\* a.py:1 and foo() only at b.py:5 the report has definitions
\* {foo: {a.py, 1}}, usages {foo: [b.py]} and nothing unused.
C10_UsagesAreHitsOffTheDefinitionLine ==
    /\ \A k \in Searched :
          LET hits == UsageHits(k)
              kept == SelectSeq(hits, LAMBDA r : r.line # definitions[k].line)
          IN /\ usages[k].name = definitions[k].name
             /\ usages[k].files = [j \in 1..Len(kept) |-> kept[j].file]
    /\ tree = EXAMPLE_TREE =>
          /\ spc # "raised"
          /\ spc = "returned" =>
                /\ report.definitions =
                      << [name |-> FOO, file |-> PATH_A, line |-> 1] >>
                /\ report.usages = << [name |-> FOO, files |-> <<PATH_B>>] >>
                /\ report.unused = <<>>

C10_Witness ==
    /\ tree = EXAMPLE_TREE
    /\ spc = "returned"
    /\ Len(report.usages) = 1
    /\ Len(UsageHits(1)) = 2

\* a hit in another file on the definition's line number is left out
C10_WitnessSameLine ==
    /\ spc = "returned"
    /\ \E k \in 1..Len(definitions) : \E i \in 1..Len(UsageHits(k)) :
          /\ UsageHits(k)[i].line = definitions[k].line
          /\ UsageHits(k)[i].file # definitions[k].file
          /\ UsageHits(k)[i].file \notin Range(usages[k].files)

\* the files of a subtree with their line numbers
Places(t) ==
    { <<i, n>> \in (1..Len(t)) \X (1..Max({ Len(t[i].lines) : i \in 1..Len(t) })) :
         n <= Len(t[i].lines) }

\* C11 (as claimed): a symbol is in unused exactly when its usage list is
\* empty, each unused entry names the symbol with its definitions entry, and
\* def bar(): at a.py:3 with no other occurrence of bar( in the subtree gives
\* the unused entry {bar, {a.py, 3}}.
C11_UnusedIffNoUsages ==
    spc = "returned" =>
        /\ \A k \in 1..Len(report.usages) :
              (report.usages[k].files = <<>>)
                 <=> (\E u \in Range(report.unused) :
                         u.symbol = report.usages[k].name)
        /\ \A u \in Range(report.unused) :
              \E d \in Range(report.definitions) :
                 /\ d.name = u.symbol
                 /\ u.defined_in = [file |-> d.file, line |-> d.line]
        /\ ( /\ \E p \in Places(tree) :
                   /\ tree[p[1]].path = PATH_A
                   /\ p[2] = 3
                   /\ tree[p[1]].lines[3] = <<"d", "e", "f", " ", "b", "a", "r", "(", ")", ":">>
             /\ \A p \in Places(tree) :
                   (tree[p[1]].path # PATH_A \/ p[2] # 3)
                      => ~Contains(tree[p[1]].lines[p[2]], <<"b", "a", "r", "(">>) )
           => [symbol |-> BAR, defined_in |-> [file |-> PATH_A, line |-> 3]]
                 \in Range(report.unused)

\* model.fit(x, y) on a line of its own, indented under a for header
InForBody(f, n) ==
    /\ n > 1
    /\ n <= Len(f.lines)
    /\ StartsAt(f.lines[n - 1], <<"f", "o", "r", " ">>, 1)
    /\ f.lines[n - 1][Len(f.lines[n - 1])] = ":"
    /\ f.lines[n][1] = " "
    /\ Strip(f.lines[n]) = FIT_CALL

\* C12 (as claimed): model.fit(x, y) in a for body whose header is on an
\* earlier line, outside any asynchronous context, is reported with method
\* fit, inside_loop true and async_context false.
C12_FitInAForBodyIsInsideLoop ==
    spc = "returned" =>
        \A f \in Range(tree) : \A n \in 1..Len(f.lines) :
            InForBody(f, n) =>
                [file |-> f.path, line |-> n, method |-> FIT,
                 signals |-> [inside_loop |-> TRUE, async_context |-> FALSE]]
                    \in Range(report.expensive_ops)

\* the text of a line before its model.fit(x, y)
BeforeFit(line) == SubSeq(line, 1, Find(line, FIT_CALL) - 1)

\* C12 (amended): a line of a file collect_expensive_ops reads that holds
\* model.fit(x, y) as its first call is reported with method fit; every
\* reported line has inside_loop true exactly when that same line contains
\* "for " or "while ", and async_context true exactly when it contains
\* "async def" or "await ".  So model.fit(x, y) on its own line in a for body
\* is reported with inside_loop false, and for x in xs: model.fit(x, y) with
\* inside_loop true and async_context false.
C12_SignalsAreOfTheSameLine ==
    spc = "returned" =>
        /\ \A op \in Range(report.expensive_ops) :
              \E f \in Range(tree) :
                 /\ f.path = op.file
                 /\ op.line \in 1..Len(f.lines)
                 /\ op.signals.inside_loop =
                       ( \/ Contains(f.lines[op.line], <<"f", "o", "r", " ">>)
                         \/ Contains(f.lines[op.line], <<"w", "h", "i", "l", "e", " ">>) )
                 /\ op.signals.async_context =
                       ( \/ Contains(f.lines[op.line], <<"a", "s", "y", "n", "c", " ", "d", "e", "f">>)
                         \/ Contains(f.lines[op.line], <<"a", "w", "a", "i", "t", " ">>) )
        /\ \A f \in Range(tree) : \A n \in 1..Len(f.lines) :
              ( /\ f.path \in {PATH_A, PATH_B}
                /\ Contains(f.lines[n], FIT_CALL)
                /\ ~Contains(BeforeFit(f.lines[n]), <<"(">>) )
              => \E op \in Range(report.expensive_ops) :
                    /\ op.file = f.path
                    /\ op.line = n
                    /\ op.method = FIT
        /\ tree = FIT_TREE =>
              /\ [file |-> PATH_A, line |-> 2, method |-> FIT,
                  signals |-> [inside_loop |-> FALSE, async_context |-> FALSE]]
                    \in Range(report.expensive_ops)
              /\ [file |-> PATH_A, line |-> 3, method |-> FIT,
                  signals |-> [inside_loop |-> TRUE, async_context |-> FALSE]]
                    \in Range(report.expensive_ops)

C12_Witness ==
    /\ spc = "returned"
    /\ tree = FIT_TREE
    /\ Len(report.expensive_ops) = 4
    /\ report.expensive_ops[3].signals.inside_loop
    /\ report.expensive_ops[4].signals.async_context

\* C13: every run of collect_signals on the subtree returns the report the
\* first run returned, in all six fields, and a run after one that returned
\* does not raise.
C13_RunsReturnTheSameReport ==
    /\ \A i \in 1..Len(reports) : reports[i] = reports[1]
    /\ Len(reports) >= 1 => spc # "raised"

C13_Witness ==
    /\ Len(reports) = 2
    /\ reports[2] = report
    /\ \E k \in 1..Len(report.usages) : Len(report.usages[k].files) = 2

\* the matches of a keyword that collect_definitions does not discard, each
\* with the name it extracts
KeptMatches(kw) ==
    LET hits == search_fn(kw).hits
        kept == SelectSeq(hits, LAMBDA r :
                    /\ \A i \in 1..Len(THIRD_PARTY_MARKERS) :
                          ~Contains(r.file, THIRD_PARTY_MARKERS[i])
                    /\ Contains(r.snippet, kw)
                    /\ ExtractName(r.snippet, kw) # <<>>)
    IN [k \in 1..Len(kept) |->
           [name |-> ExtractName(kept[k].snippet, kw),
            file |-> kept[k].file, line |-> kept[k].line]]

\* both passes: the "def " matches, then the "class " matches
AllKeptMatches == KeptMatches(KW_DEF) \o KeptMatches(KW_CLASS)

\* collect_definitions has just returned
DefinitionsCollected == spc = "usages" /\ ui = 1

\* C19: definitions holds one entry per name; the entry of a name is the
\* last match, over the "def " matches followed by the "class " matches,
\* that is not discarded and extracts that name; every extracted name has an
\* entry; and no entry's file contains site-packages, .venv, venv,
\* node_modules, dist or build.
C19_LastMatchWins ==
    /\ spc = "returned" => report.definitions = definitions
    /\ DefinitionsCollected =>
        LET all == AllKeptMatches IN
        /\ \A i, j \in 1..Len(definitions) :
              definitions[i].name = definitions[j].name => i = j
        /\ \A d \in Range(definitions) :
              \E i \in 1..Len(all) :
                 /\ all[i] = d
                 /\ \A j \in (i + 1)..Len(all) : all[j].name # d.name
        /\ \A i \in 1..Len(all) :
              \E d \in Range(definitions) : d.name = all[i].name
        /\ \A d \in Range(definitions) :
              \A m \in { <<"s", "i", "t", "e", "-", "p", "a", "c", "k", "a", "g", "e", "s">>, <<".", "v", "e", "n", "v">>, <<"v", "e", "n", "v">>, <<"n", "o", "d", "e", "_", "m", "o", "d", "u", "l", "e", "s">>, <<"d", "i", "s", "t">>, <<"b", "u", "i", "l", "d">> } :
                 ~Contains(d.file, m)

C19_Witness ==
    /\ tree = CLASS_TREE
    /\ spc = "returned"
    /\ Len(AllKeptMatches) = 2
    /\ report.definitions = << [name |-> FOO, file |-> PATH_A, line |-> 1] >>

\* matches in rebuild.py and under site-packages are discarded
C19_WitnessThirdParty ==
    /\ tree = THIRD_PARTY_TREE
    /\ spc = "returned"
    /\ Len(search_fn(KW_DEF).hits) = 2
    /\ Len(search_fn(KW_CLASS).hits) = 1
    /\ report.definitions = << [name |-> FOO, file |-> PATH_A, line |-> 1] >>

(***************************************************************************)
(* Claims about the command pipeline, concurrent runs and read_file.       *)
(***************************************************************************)
\* C14 (as claimed): a command of cli main reaches query: main does not fail
\* on the way, and once query is in its loop the conversation starts with
\* the system instruction and a user message that holds the command's task
\* prompt, followed by the serialized SignalReport exactly for lint,
\* optimize and fix.
C14_CommandsSeedTheLoop ==
    args # NO_ARGS =>
        /\ cli_pc # "raised"
        /\ pc \notin {"Idle", "Start"} =>
              /\ messages[1] = [role |-> "system", content |-> <<SYSTEM_PROMPT>>]
              /\ messages[2].role = "user"
              /\ messages[2].content[1] = build_prompt(args)
              /\ (Len(messages[2].content) = 2) <=> (args.command \in SIGNAL_COMMANDS)

\* ms is the conversation of the run asked q whose invocation ids start
\* after base: its own seed, then assistant turns with ids of that run and
\* tool messages that answer an invocation requested earlier in ms
OwnConversation(ms, q, base) ==
    Len(ms) > 0 =>
        /\ Len(ms) >= 2
        /\ ms[1] = [role |-> "system", content |-> <<SYSTEM_PROMPT>>]
        /\ ms[2] = [role |-> "user", content |-> <<q>>]
        /\ \A i \in 3..Len(ms) :
              /\ ms[i].role \in {"assistant", "tool"}
              /\ ms[i].role = "assistant" =>
                    \A j \in 1..Len(ms[i].tool_calls) :
                       ms[i].tool_calls[j].id \in (base + 1)..(base + PEER_ID_BASE)
              /\ ms[i].role = "tool" =>
                    \E k \in 3..(i - 1) :
                       /\ ms[k].role = "assistant"
                       /\ \E j \in 1..Len(ms[k].tool_calls) :
                             /\ ms[k].tool_calls[j].id = ms[i].tool_call_id
                             /\ ms[k].tool_calls[j].name = ms[i].content[2]

\* the step counter and the outcome of the locals r are those of its own
\* turns
CountsItsOwnTurns(r) ==
    /\ r.step <= MAX_STEPS
    /\ r.step = Cardinality(Assistants(r.messages))
                + (IF r.pc = "Done" \/ r.result = <<"raise", "APIError">>
                   THEN 1 ELSE 0)
    /\ r.pc = "Done" =>
          r.result = <<"return", IF r.msg.content \in {None, ""}
                                 THEN NO_ANSWER ELSE r.msg.content>>
    /\ r.pc = "Exhausted" =>
          /\ r.step = MAX_STEPS
          /\ r.result = <<"return", STEP_LIMIT_ANSWER>>

\* the locals of the first run
ThisRun ==
    [pc |-> pc, step |-> step, messages |-> messages, msg |-> msg,
     result |-> result]

\* C15: of two query runs interleaved at their suspension points, each
\* holds a conversation of its own seed, its own assistant turns and the
\* tool results of its own invocations, and each counts its own turns and
\* ends with its own outcome.
C15_RunsShareNothing ==
    /\ OwnConversation(messages, question, 0)
    /\ OwnConversation(peer.messages, peer.question, PEER_ID_BASE)
    /\ CountsItsOwnTurns(ThisRun)
    /\ CountsItsOwnTurns(peer)

C15_Witness ==
    /\ pc = "Dispatching"
    /\ peer.pc = "Dispatching"
    /\ step >= 2
    /\ peer.step >= 1
    /\ question # peer.question

\* file_path is outside the workspace root
Outside(parts) ==
    LET root == SplitPath(SubSeq(WORKSPACE_ROOT, 2, Len(WORKSPACE_ROOT)))
    IN ~(Len(parts) >= Len(root) /\ SubSeq(parts, 1, Len(root)) = root)

\* C16 (as claimed): for every path that resolves outside the workspace
\* root, a sibling directory named like the root too, read_file fails with
\* Access Denied, whether or not the file exists or is binary, and returns
\* no content.
C16_OutsideIsAccessDenied ==
    (rpc \in {"returned", "raised"} /\ Outside(file_path))
        => read_result = <<"raise", ACCESS_DENIED>>

\* C17 (as claimed): no invocation query dispatches resolves to query
\* itself, whatever name the reasoning service requests.
C17_NeverDispatchesItself == resolved # SELF

\* C18 (as claimed): every run that starts ends Done, Exhausted, or with a
\* failure of the reasoning-service call; no tool-level error ends it.
C18_EveryRunEndsWell ==
    (pc = "Start") ~>
        ( \/ pc \in {"Done", "Exhausted"}
          \/ pc = "Raised" /\ result = <<"raise", "APIError">> )

====
